---- MODULE Spec2Model ----
(***************************************************************************)
(* Model of receipt_recognizer: the client of the receipt-recognition      *)
(* service (client.py), its version check (version.py), its error          *)
(* taxonomy (exceptions.py) and the local PDF path (pdf_processor.py).     *)
(*                                                                         *)
(* Python values are modelled as follows.  A str is a sequence of atoms    *)
(* (single characters where the code looks at characters, whole chunks     *)
(* where it only copies them), so that concatenation is \o.  None is the   *)
(* one-atom sequence <<"None">>.  A dict is a function whose DOMAIN is its *)
(* key set.  A call ends in an outcome record: returned (with a value) or  *)
(* raised (with the exception class and its message).                      *)
(***************************************************************************)
EXTENDS Integers, Sequences, FiniteSets, TLC

VARIABLES pc, self, call, outcome, log

vars == <<pc, self, call, outcome, log>>

----
(* Bounds *)

\* longest endpoint URL drawn for the parameter and the environment
MaxUrlLen == 2
\* longest version string drawn for check_compatibility and the health reply
MaxVerLen == 3
\* most patterns of RECEIPT_PATTERNS that match in one drawn document
MaxMatched == 2
\* most bank markers that occur in one drawn document
MaxMarkers == 2

\* the longest date or time string passed to _combine_date_time
MaxStrLen == 2

\* the longest text searched by find_text_by_patterns
MaxTextLen == 2

\* the longest pattern searched for
MaxPatLen == 2

\* the most words a document has, over all of its pages
MaxWords == 3

\* the most candidate keys passed to _extract_field
MaxKeys == 3

----
(* Python values *)

\* None, where a str is expected
None == <<"None">>

\* None, a bool and a dict, where any object is expected
ValNone == [t |-> "None"]
ValBool(b) == [t |-> "bool", b |-> b]
ValDict(d) == [t |-> "dict", d |-> d]
\* a key that a JSON object does not have
Absent == [t |-> "absent"]

\* bool(x) of an Optional[str]
truthy(x) == x # None /\ x # <<>>

\* a or b
PyOr(a, b) == IF truthy(a) THEN a ELSE b

SeqsUpTo(S, n) == UNION {[1..k -> S] : k \in 0..n}

RECURSIVE rstrip(_, _)
\* str.rstrip(c): drops every trailing c
rstrip(s, c) ==
    IF s # <<>> /\ s[Len(s)] = c
    THEN rstrip(SubSeq(s, 1, Len(s) - 1), c)
    ELSE s

RECURSIVE split_first(_, _)
\* str.split(c)[0]: the text before the first c (all of s when it has none)
split_first(s, c) ==
    IF s = <<>> \/ Head(s) = c
    THEN <<>>
    ELSE <<Head(s)>> \o split_first(Tail(s), c)

RECURSIVE join(_, _)
\* sep.join(parts), parts a sequence of strs
join(parts, sep) ==
    IF parts = <<>> THEN <<>>
    ELSE IF Len(parts) = 1 THEN parts[1]
    ELSE parts[1] \o sep \o join(Tail(parts), sep)

\* whether needle occurs in text as a contiguous run of atoms
Contains(text, needle) ==
    \E i \in 1..(Len(text) - Len(needle) + 1) :
        SubSeq(text, i, i + Len(needle) - 1) = needle

\* str.lower() on the characters a file suffix is drawn from
lower_char(c) ==
    CASE c = "P" -> "p"
      [] c = "D" -> "d"
      [] c = "F" -> "f"
      [] c = "J" -> "j"
      [] c = "G" -> "g"
      [] OTHER -> c

lower(s) == [i \in 1..Len(s) |-> lower_char(s[i])]

EmptyDict == [k \in {} |-> None]

\* d with d[key] = value
dict_set(d, key, value) == (key :> value) @@ d

----
(* constants.py *)

SOURCE == "source"
DESTINATION == "destination"
AMOUNT == "amount"
FEE == "fee"
DATE == "date"

BASE_FIELDS == <<SOURCE, DESTINATION, AMOUNT, FEE, DATE>>

----
(* exceptions.py *)

\* the classes deriving from ReceiptRecognizerError
ReceiptRecognizerError ==
    {"ReceiptRecognizerError", "APIError", "ValidationError",
     "VersionMismatchError", "DeprecatedClientError"}

\* the classes of requests.exceptions deriving from RequestException; with
\* requests>=2.31.0 (setup.py) response.json() raises its own JSONDecodeError,
\* which is one of them
RequestException ==
    {"RequestException", "ConnectionError", "Timeout", "requests.JSONDecodeError"}

NoAttrs == [client_version |-> None, server_version |-> None]

NoOutcome ==
    [kind |-> "none", exc |-> "", msg |-> <<>>, value |-> ValNone, attrs |-> NoAttrs]

Returned(v) ==
    [kind |-> "returned", exc |-> "", msg |-> <<>>, value |-> v, attrs |-> NoAttrs]

Raised(cls, message) ==
    [kind |-> "raised", exc |-> cls, msg |-> message, value |-> ValNone,
     attrs |-> NoAttrs]

\* VersionMismatchError.__init__: keeps both versions and the message
VersionMismatchError(client_version, server_version, message) ==
    [kind |-> "raised", exc |-> "VersionMismatchError",
     msg |-> IF message # <<>> THEN message
             ELSE <<"Version mismatch: client=">> \o client_version
                  \o <<", server=">> \o server_version
                  \o <<". Please update your client library.">>,
     value |-> ValNone,
     attrs |-> [client_version |-> client_version, server_version |-> server_version]]

----
(* version.py *)

__version__ == <<"1", ".", "0", ".", "0">>

\* a check that compares the whole version strings
check_compatibility_exact(client_version, server_version) ==
    IF client_version # server_version
    THEN VersionMismatchError(client_version, server_version, <<>>)
    ELSE Returned(ValBool(TRUE))

\* check_compatibility: the major components (text before the first dot) must agree
check_compatibility(client_version, server_version) ==
    LET client_major == split_first(client_version, ".")
        server_major == split_first(server_version, ".")
    IN  IF client_major # server_major
        THEN VersionMismatchError(client_version, server_version,
                 <<"Incompatible versions. Client v">> \o client_major
                 \o <<".x.x cannot work with server v">> \o server_major
                 \o <<".x.x. Please install matching version.">>)
        ELSE Returned(ValBool(TRUE))

----
(* client.py: the Result Validator *)

\* a loop that stops at the first missing field
missing_fields_first(result) ==
    LET all == SelectSeq(BASE_FIELDS,
                   LAMBDA field : field \notin DOMAIN result \/ result[field] = None)
    IN  IF all = <<>> THEN <<>> ELSE <<all[1]>>

\* the loop of _validate_result: every base field that is absent or None
missing_fields(result) ==
    SelectSeq(BASE_FIELDS,
        LAMBDA field : field \notin DOMAIN result \/ result[field] = None)

\* a validator that accepts everything
_validate_result_skip(result) == Returned(ValNone)

\* _validate_result(result); `field not in None` is a TypeError
_validate_result(result) ==
    IF result.t # "dict"
    THEN Raised("TypeError", <<"argument of type 'NoneType' is not iterable">>)
    ELSE IF missing_fields(result.d) # <<>>
    THEN Raised("ValidationError",
             <<"Missing required fields: ">>
             \o join([i \in 1..Len(missing_fields(result.d)) |->
                         <<missing_fields(result.d)[i]>>], <<", ">>))
    ELSE Returned(ValNone)

\* a combination that separates date and time by a blank
_combine_date_time_blank(date_str, time_str) ==
    IF ~truthy(date_str) THEN None
    ELSE IF truthy(time_str) THEN date_str \o <<" ">> \o time_str
    ELSE date_str

\* _combine_date_time(date_str, time_str)
_combine_date_time(date_str, time_str) ==
    IF ~truthy(date_str) THEN None
    ELSE IF truthy(time_str) THEN date_str \o <<"T">> \o time_str
    ELSE date_str

----
(* pdf_processor.py *)

\* A PDF on disk, as far as the code can tell documents apart:
\*   searchable  whether its first pages carry more than 50 characters of text
\*   fault       the step of the local path at which fitz (or anything else)
\*               raises, "none" when nothing does
\*   matches     what re.search finds for each pattern of RECEIPT_PATTERNS
\*               (None when the pattern has no match)
\*   markers     the bank markers that occur in the lower-cased text
\* Cyrillic text is written in Latin letters behind "cyr:".

PatternKeys ==
    {"amount", "card_number", "date", "time", "operation_id", "commission"}

\* a text that each pattern of RECEIPT_PATTERNS captures when it matches
MatchText ==
    [amount |-> <<"8700.00">>, card_number |-> <<"****1723">>,
     date |-> <<"31.03.2020">>, time |-> <<"11:44:30">>,
     operation_id |-> <<"42">>, commission |-> <<"87.00">>]

\* the spellings of the four banks, Cyrillic and Latin, that may occur in the
\* lower-cased text
BankMarkers ==
    {"cyr:sber", "sber", "cyr:tinkoff", "tinkoff", "cyr:alfa", "alfa", "cyr:vtb",
     "vtb"}

Faults == {"extract_text", "positions", "patterns", "mapping"}

NoDoc ==
    [searchable |-> FALSE, fault |-> "none",
     matches |-> [k \in PatternKeys |-> None], markers |-> {}]

Documents ==
    {NoDoc}
    \cup {[NoDoc EXCEPT !.searchable = TRUE, !.fault = f] : f \in Faults}
    \cup {[searchable |-> TRUE, fault |-> "none",
           matches |-> [k \in PatternKeys |-> IF k \in M THEN MatchText[k] ELSE None],
           markers |-> B] :
            M \in {X \in SUBSET PatternKeys : Cardinality(X) <= MaxMatched},
            B \in {Y \in SUBSET BankMarkers : Cardinality(Y) <= MaxMarkers}}

\* a detector that takes every document that opens for searchable
is_searchable_pdf_always(doc) == TRUE

\* PDFProcessor.is_searchable_pdf: never raises, a failure counts as not searchable
is_searchable_pdf(doc) == doc.searchable

\* PDFProcessor.extract_text_from_pdf, called at the step named stage
extract_text_from_pdf(doc, stage) ==
    IF doc.fault = stage
    THEN Raised("Exception", <<"Error extracting text from PDF: ", stage>>)
    ELSE Returned(ValNone)

\* PDFProcessor.extract_text_with_positions
extract_text_with_positions(doc) ==
    IF doc.fault = "positions"
    THEN Raised("Exception", <<"Error extracting text from PDF: ", "positions">>)
    ELSE Returned(ValNone)

\* PDFProcessor.find_text_by_patterns with RECEIPT_PATTERNS: extracts the text
\* again, then one entry per pattern
find_text_by_patterns(doc) ==
    IF extract_text_from_pdf(doc, "patterns").kind = "raised"
    THEN extract_text_from_pdf(doc, "patterns")
    ELSE Returned(ValDict(doc.matches))

\* The words of page.get_text("words"), reduced to x0, y0 and the text; the
\* positions are in hundredths of a point and none lies halfway between two
\* tenths; "nbsp" is a no-break space, which str.strip() takes for whitespace
Xs == {1, 2}
Ys == {11, 14, 16}
WordTexts == {<<"a">>, <<"nbsp">>}
Words == [x : Xs, y : Ys, text : WordTexts]
\* the pages of a document: one page, or two pages (either may have no word)
PagesOf(b, p, q) == IF b < 0 THEN <<p>> ELSE <<p, q>>

\* round(y0, 1), in tenths of a point
round1(y) == (y + 5) \div 10

RECURSIVE group_words(_, _)
\* the loop over the words of a page: lines[y_key].append(...)
group_words(words, lines) ==
    IF words = <<>> THEN lines
    ELSE LET w == Head(words)
             y_key == round1(w.y)
             line == IF y_key \in DOMAIN lines THEN lines[y_key] ELSE <<>>
         IN  group_words(Tail(words), dict_set(lines, y_key, Append(line, w)))

RECURSIVE sorted_keys(_)
\* sorted(lines.keys())
sorted_keys(keys) ==
    IF keys = {} THEN <<>>
    ELSE LET least == CHOOSE k \in keys : \A o \in keys : k <= o
         IN  <<least>> \o sorted_keys(keys \ {least})

RECURSIVE insert_by_x(_, _)
\* puts w after the words of an ordered line that are not to its right
insert_by_x(line, w) ==
    IF line = <<>> THEN <<w>>
    ELSE IF w.x < Head(line).x THEN <<w>> \o line
    ELSE <<Head(line)>> \o insert_by_x(Tail(line), w)

\* a line left in the order in which its words were read
sorted_by_x_unsorted(line) == line

RECURSIVE sorted_by_x(_)
\* sorted(lines[y_pos], key=lambda w: w['x']), a stable sort
sorted_by_x(line) ==
    IF line = <<>> THEN <<>>
    ELSE insert_by_x(sorted_by_x(SubSeq(line, 1, Len(line) - 1)), line[Len(line)])

\* bool(line_text.strip())
strip_truthy(line_text) ==
    \E i \in 1..Len(line_text) : line_text[i] \notin {" ", "nbsp"}

RECURSIVE emit_lines(_, _, _)
\* the loop over the sorted keys of a page
emit_lines(page_num, lines, keys) ==
    IF keys = <<>> THEN <<>>
    ELSE LET y_pos == Head(keys)
             line_words == sorted_by_x(lines[y_pos])
             line_text == join([i \in 1..Len(line_words) |-> line_words[i].text],
                               <<" ">>)
         IN  (IF strip_truthy(line_text)
              THEN <<[page |-> page_num, y_position |-> y_pos,
                      text |-> line_text, words |-> line_words]>>
              ELSE <<>>)
             \o emit_lines(page_num, lines, Tail(keys))

RECURSIVE pages_loop(_, _)
\* for page_num, page in enumerate(doc)
pages_loop(pages, page_num) ==
    IF pages = <<>> THEN <<>>
    ELSE LET lines == group_words(Head(pages), EmptyDict)
         IN  emit_lines(page_num, lines, sorted_keys(DOMAIN lines))
             \o pages_loop(Tail(pages), page_num + 1)

\* extract_text_with_positions on a document that opens; `pages` are the
\* words of each page
extract_text_with_positions_of(pages) == Returned(pages_loop(pages, 0))

\* The patterns modelled: a literal of one or more characters whose last g
\* characters are a capturing group (g = 0: the pattern has no group), such as
\* `pd`, `p(d)` and `(pd)`
TextChars == {"p", "P", "d"}
Texts == SeqsUpTo(TextChars, MaxTextLen)
Patterns ==
    {p \in [lit : SeqsUpTo({"p", "d"}, MaxPatLen) \ {<<>>}, g : 0..MaxPatLen] :
        p.g <= Len(p.lit)}

NoMatch == [found |-> FALSE, start |-> 0]

\* whether the literal matches at position i, letter case ignored
match_at(pattern, text, i) ==
    /\ i + Len(pattern.lit) - 1 <= Len(text)
    /\ \A k \in 1..Len(pattern.lit) :
          lower_char(text[i + k - 1]) = lower_char(pattern.lit[k])

RECURSIVE search_from(_, _, _)
\* the scan of re.search: the first position from i on where the pattern matches
search_from(pattern, text, i) ==
    IF i > Len(text) THEN NoMatch
    ELSE IF match_at(pattern, text, i) THEN [found |-> TRUE, start |-> i]
    ELSE search_from(pattern, text, i + 1)

\* re.search(pattern, text, re.IGNORECASE | re.MULTILINE)
re_search(pattern, text) == search_from(pattern, text, 1)

\* match.group(1) if match.groups() else match.group(0)
match_value(pattern, text, match) ==
    LET end == match.start + Len(pattern.lit) - 1
    IN  IF pattern.g > 0
        THEN SubSeq(text, end - pattern.g + 1, end)
        ELSE SubSeq(text, match.start, end)

RECURSIVE patterns_loop_break(_, _, _)
\* a loop that stops at the first pattern without a match
patterns_loop_break(text, items, result) ==
    IF items = <<>> THEN result
    ELSE LET match == re_search(Head(items).pattern, text)
         IN  IF match.found
             THEN patterns_loop_break(text, Tail(items),
                      dict_set(result, Head(items).field,
                               match_value(Head(items).pattern, text, match)))
             ELSE dict_set(result, Head(items).field, None)

\* a search that gives up at the first pattern without a match
find_text_by_patterns_break(text, items) ==
    Returned(ValDict(patterns_loop_break(text, items, EmptyDict)))

RECURSIVE patterns_loop(_, _, _)
\* for field_name, pattern in patterns.items(): ...
patterns_loop(text, items, result) ==
    IF items = <<>> THEN result
    ELSE LET match == re_search(Head(items).pattern, text)
         IN  patterns_loop(text, Tail(items),
                 dict_set(result, Head(items).field,
                          IF match.found
                          THEN match_value(Head(items).pattern, text, match)
                          ELSE None))

\* find_text_by_patterns on the extracted text; `items` is patterns.items(),
\* the fields and their patterns in the order of the dict
find_text_by_patterns_in(text, items) ==
    Returned(ValDict(patterns_loop(text, items, EmptyDict)))

\* a chain that tests the banks in the opposite order
sniff_bank_reversed(markers) ==
    IF "cyr:vtb" \in markers THEN {<<"cyr:VTB">>}
    ELSE IF "cyr:alfa" \in markers \/ "alfa" \in markers THEN {<<"cyr:Alfa-bank">>}
    ELSE IF "cyr:tinkoff" \in markers \/ "tinkoff" \in markers THEN {<<"cyr:Tinkoff">>}
    ELSE IF "cyr:sber" \in markers \/ "sber" \in markers THEN {<<"cyr:Sberbank">>}
    ELSE {}

\* the if/elif chain of process_receipt_pdf; {} when no marker occurs
sniff_bank(markers) ==
    IF "cyr:sber" \in markers \/ "sber" \in markers THEN {<<"cyr:Sberbank">>}
    ELSE IF "cyr:tinkoff" \in markers \/ "tinkoff" \in markers THEN {<<"cyr:Tinkoff">>}
    ELSE IF "cyr:alfa" \in markers \/ "alfa" \in markers THEN {<<"cyr:Alfa-bank">>}
    ELSE IF "cyr:vtb" \in markers THEN {<<"cyr:VTB">>}
    ELSE {}

\* the functions process_receipt_pdf calls, in order, up to the one that raises
process_receipt_pdf_calls(doc, use_patterns) ==
    <<"process_receipt_pdf", "extract_text_from_pdf">>
    \o (IF doc.fault = "extract_text" THEN <<>>
        ELSE <<"extract_text_with_positions">>
             \o (IF doc.fault = "positions" THEN <<>>
                 ELSE <<"is_searchable_pdf">>
                      \o (IF use_patterns
                          THEN <<"find_text_by_patterns", "extract_text_from_pdf">>
                          ELSE <<>>)))

\* process_receipt_pdf(pdf_path, use_patterns): the dict it returns; every
\* exception raised inside ends in {'error': str(e), 'success': False}
process_receipt_pdf(doc, use_patterns) ==
    LET failed(r) == Returned(ValDict([error |-> r.msg, success |-> FALSE]))
        text == extract_text_from_pdf(doc, "extract_text")
        positioned == extract_text_with_positions(doc)
        found == find_text_by_patterns(doc)
        result == [full_text |-> <<"full_text">>,
                   positioned_text |-> <<"positioned_text">>,
                   is_searchable |-> is_searchable_pdf(doc)]
        bank == sniff_bank(doc.markers)
    IN  IF text.kind = "raised" THEN failed(text)
        ELSE IF positioned.kind = "raised" THEN failed(positioned)
        ELSE IF ~use_patterns THEN Returned(ValDict(result))
        ELSE IF found.kind = "raised" THEN failed(found)
        ELSE Returned(ValDict(
                 (IF bank = {} THEN EmptyDict
                  ELSE [b \in {"bank"} |-> CHOOSE x \in bank : TRUE])
                 @@ dict_set(result, "extracted", found.value.d)))

----
(* client.py: construction *)

UrlChars == {"h", "/"}
Urls == SeqsUpTo(UrlChars, MaxUrlLen)
Tokens == {<<>>, <<"t">>}
VerChars == {"1", "2", "."}
Versions == SeqsUpTo(VerChars, MaxVerLen)

\* what GET {api_url}/api/health does
NoHealth == [kind |-> "none", version |-> None]
HealthReplies ==
    {[kind |-> k, version |-> None] :
        k \in {"unreachable", "non200", "undecodable", "nonobject",
               "noversion", "nullversion"}}
    \cup {[kind |-> "version", version |-> v] : v \in Versions}

NoSelf ==
    [api_url |-> None, client_token |-> None, process_pdf_locally |-> FALSE,
     local_mode |-> FALSE]

\* os.getenv(name, default): env_value is None when the variable is not set
getenv(env_value, default) == IF env_value = None THEN default ELSE env_value

\* a resolution in which the environment wins over the parameter
resolve_api_url_env_first(api_url, env_url) ==
    rstrip(PyOr(getenv(env_url, <<>>), api_url), "/")

\* self.api_url = (api_url or os.getenv(self.ENV_API_URL, "")).rstrip('/')
resolve_api_url(api_url, env_url) ==
    rstrip(PyOr(api_url, getenv(env_url, <<>>)), "/")

\* self.client_token = client_token or os.getenv(self.ENV_CLIENT_TOKEN)
resolve_client_token(client_token, env_token) ==
    PyOr(client_token, getenv(env_token, None))

\* the body of _check_connection for one reply of the health endpoint
check_connection_outcome(health) ==
    LET server_version ==
            IF health.kind = "noversion" THEN <<"0", ".", "0", ".", "0">>
            ELSE health.version
        request == <<"requests.get">>
    IN  CASE health.kind = "unreachable" ->
                [out |-> Returned(ValNone), log |-> request \o <<"logging.warning">>]
          [] health.kind = "non200" ->
                [out |-> Returned(ValNone), log |-> request]
          [] health.kind = "undecodable" ->
                [out |-> Returned(ValNone), log |-> request \o <<"logging.warning">>]
          [] health.kind = "nonobject" ->
                [out |-> Raised("AttributeError", <<"object has no attribute 'get'">>),
                 log |-> request]
          [] health.kind = "nullversion" ->
                [out |-> Raised("AttributeError",
                            <<"'NoneType' object has no attribute 'split'">>),
                 log |-> request \o <<"check_compatibility">>]
          [] OTHER ->
                [out |-> Returned(ValNone),
                 log |-> request \o <<"check_compatibility">>
                         \o (IF check_compatibility(__version__, server_version).kind
                                = "raised"
                             THEN <<"warnings.warn">> ELSE <<>>)]

----
(* client.py: recognize *)

Suffixes ==
    {<<>>, <<".", "p", "d", "f">>, <<".", "P", "D", "F">>, <<".", "P", "d", "f">>,
     <<".", "j", "p", "g">>, <<".", "J", "P", "G">>}

\* a routing that compares the suffix as written
use_local_path_exact(slf, suffix) ==
    suffix = <<".", "p", "d", "f">> /\ (slf.process_pdf_locally \/ slf.local_mode)

\* the condition of recognize for the local path
use_local_path(slf, suffix) ==
    LET is_pdf == lower(suffix) = <<".", "p", "d", "f">>
    IN  is_pdf /\ (slf.process_pdf_locally \/ slf.local_mode)

\* the mapping of the extracted fields onto the base fields
mapped_result(result) ==
    LET extracted == result["extracted"]
    IN  [source |-> None,
         destination |-> None,
         amount |-> extracted["amount"],
         fee |-> extracted["commission"],
         date |-> _combine_date_time(extracted["date"], extracted["time"]),
         bank |-> IF "bank" \in DOMAIN result THEN result["bank"] ELSE None,
         raw_extracted |-> extracted]

\* a handler that lets the exception go
local_except_reraise(r) == r

\* a handler whose record does not say where it comes from
local_except_untagged(r) ==
    IF r.kind = "raised"
    THEN Returned(ValDict([success |-> FALSE, error |-> r.msg]))
    ELSE r

\* the except clause of _process_pdf_locally
local_except(r) ==
    IF r.kind = "raised"
    THEN Returned(ValDict([success |-> FALSE, error |-> r.msg, source |-> <<"pdf">>]))
    ELSE r

\* the try block of _process_pdf_locally
local_try(doc) ==
    IF ~is_searchable_pdf(doc)
    THEN [out |-> Returned(ValDict(
                     [success |-> FALSE,
                      error |-> <<"cyr:PDF is a scanned image. OCR is required.">>,
                      source |-> <<"pdf">>,
                      is_scanned |-> TRUE])),
          log |-> <<"is_searchable_pdf">>]
    ELSE LET result == process_receipt_pdf(doc, TRUE).value.d
             tagged == dict_set(dict_set(dict_set(result,
                           "source", <<"pdf">>),
                           "is_scanned", FALSE),
                           "success", "error" \notin DOMAIN result)
             calls == <<"is_searchable_pdf">> \o process_receipt_pdf_calls(doc, TRUE)
         IN  IF doc.fault = "mapping"
             THEN [out |-> Raised("MemoryError", <<"out of memory">>), log |-> calls]
             ELSE IF "extracted" \in DOMAIN tagged
             THEN [out |-> Returned(ValDict(
                              dict_set(tagged, "mapped", mapped_result(tagged)))),
                   log |-> calls \o <<"_combine_date_time">>]
             ELSE [out |-> Returned(ValDict(tagged)), log |-> calls]

\* _process_pdf_locally(pdf_path)
process_pdf_locally_outcome(doc) ==
    [out |-> local_except(local_try(doc).out),
     log |-> <<"_process_pdf_locally">> \o local_try(doc).log]

----
(* client.py: the remote path *)

\* every dict over a subset of the base fields, each value None or a value;
\* the sender under `source` is any text, the text "pdf" included
ResultDicts ==
    UNION {{d \in [D -> {None, <<"v">>, <<"pdf">>}] :
                \A f \in D \ {SOURCE} : d[f] # <<"pdf">>} :
              D \in SUBSET {BASE_FIELDS[i] : i \in 1..Len(BASE_FIELDS)}}

\* what POST {api_url}/api/v1/recognize does: no reply at all (net = FALSE), or
\* a reply with a status and a body that is not JSON ("undecodable"), JSON
\* but not an object ("nonobject"), or a JSON object with its `error` and `data`
NoReply ==
    [net |-> FALSE, status |-> 0, body |-> "none", error |-> None, data |-> Absent]

Replies ==
    {NoReply}
    \cup {[net |-> TRUE, status |-> st, body |-> b, error |-> None, data |-> Absent] :
            st \in {200, 401, 500}, b \in {"undecodable", "nonobject"}}
    \cup {[net |-> TRUE, status |-> st, body |-> "object", error |-> e, data |-> Absent] :
            st \in {401, 500}, e \in {None, <<"Invalid token">>}}
    \cup {[net |-> TRUE, status |-> 200, body |-> "object", error |-> None, data |-> d] :
            d \in {Absent, ValNone} \cup {ValDict(x) : x \in ResultDicts}}

\* response.json()
response_json(reply) ==
    IF reply.body = "undecodable"
    THEN Raised("requests.JSONDecodeError", <<"Expecting value">>)
    ELSE Returned(ValNone)

\* result.get('data', {})
response_data(reply) ==
    IF reply.data = Absent THEN ValDict(EmptyDict) ELSE reply.data

\* the except clauses of _send_to_api
send_except(r) ==
    IF r.kind = "raised" /\ r.exc \in RequestException
    THEN Raised("APIError", <<"Network error: ">> \o r.msg)
    ELSE IF r.kind = "raised" /\ r.exc = "json.JSONDecodeError"
    THEN Raised("APIError", <<"Invalid JSON response: ">> \o r.msg)
    ELSE r

\* a try block that sends the request again when the connection fails
send_try_retry(reply) ==
    IF ~reply.net
    THEN [out |-> Raised("ConnectionError", <<"connection failed">>),
          log |-> <<"requests.post", "requests.post">>]
    ELSE IF response_json(reply).kind = "raised"
    THEN [out |-> response_json(reply), log |-> <<"requests.post">>]
    ELSE IF reply.body = "nonobject"
    THEN [out |-> Raised("AttributeError", <<"object has no attribute 'get'">>),
          log |-> <<"requests.post">>]
    ELSE IF reply.status # 200
    THEN [out |-> Raised("APIError", <<"API Error">>), log |-> <<"requests.post">>]
    ELSE [out |-> IF _validate_result(response_data(reply)).kind = "raised"
                  THEN _validate_result(response_data(reply))
                  ELSE Returned(response_data(reply)),
          log |-> <<"requests.post", "_validate_result">>]

\* the try block of _send_to_api
send_try(reply) ==
    IF ~reply.net
    THEN [out |-> Raised("ConnectionError", <<"connection failed">>),
          log |-> <<"requests.post">>]
    ELSE IF response_json(reply).kind = "raised"
    THEN [out |-> response_json(reply), log |-> <<"requests.post">>]
    ELSE IF reply.body = "nonobject"
    THEN [out |-> Raised("AttributeError", <<"object has no attribute 'get'">>),
          log |-> <<"requests.post">>]
    ELSE IF reply.status # 200
    THEN [out |-> Raised("APIError",
                     <<"API Error ", ToString(reply.status), ": ">>
                     \o (IF reply.error = None THEN <<"Unknown error">>
                         ELSE reply.error)),
          log |-> <<"requests.post">>]
    ELSE [out |-> IF _validate_result(response_data(reply)).kind = "raised"
                  THEN _validate_result(response_data(reply))
                  ELSE Returned(response_data(reply)),
          log |-> <<"requests.post", "_validate_result">>]

\* _send_to_api(file_path)
send_to_api_outcome(slf, readable, reply) ==
    IF slf.local_mode
    THEN [out |-> Raised("ValueError",
                     <<"API URL not configured. Cannot send file to server.">>),
          log |-> <<"_send_to_api">>]
    ELSE IF ~readable
    THEN [out |-> Raised("OSError", <<"No such file or directory">>),
          log |-> <<"_send_to_api", "open">>]
    ELSE [out |-> send_except(send_try(reply).out),
          log |-> <<"_send_to_api", "open">> \o send_try(reply).log]

----
(* core.py *)

\* the keys _standardize_result looks the sender up under, and the raw results
\* holding some of them, each with None or a text
CandidateKeys == {"sender", "sender_card", "source"}
RawResults == UNION {[D -> {None, <<"a">>, <<"b">>}] : D \in SUBSET CandidateKeys}

\* a check that looks at the keys only
validate_fields_keys_only(result) ==
    ValBool(\A i \in 1..Len(BASE_FIELDS) : BASE_FIELDS[i] \in DOMAIN result)

\* validate_fields(result): all(field in result and result[field] is not None ...)
validate_fields(result) ==
    ValBool(\A i \in 1..Len(BASE_FIELDS) :
                BASE_FIELDS[i] \in DOMAIN result /\ result[BASE_FIELDS[i]] # None)

RECURSIVE _extract_field_last(_, _)
\* a lookup in which the last candidate present wins
_extract_field_last(data, possible_keys) ==
    IF possible_keys = <<>> THEN None
    ELSE IF possible_keys[Len(possible_keys)] \in DOMAIN data
    THEN data[possible_keys[Len(possible_keys)]]
    ELSE _extract_field_last(data, SubSeq(possible_keys, 1, Len(possible_keys) - 1))

RECURSIVE _extract_field(_, _)
\* for key in possible_keys: if key in data: return data[key]; return None
_extract_field(data, possible_keys) ==
    IF possible_keys = <<>> THEN None
    ELSE IF Head(possible_keys) \in DOMAIN data THEN data[Head(possible_keys)]
    ELSE _extract_field(data, Tail(possible_keys))

----
(* cli.py *)

\* a command that only warns about the mismatch, as the constructor does
check_version_command_warn(server_version) ==
    IF check_compatibility(__version__, server_version).kind = "raised"
    THEN [out |-> Returned(ValNone),
          log |-> <<"check_compatibility", "print.stderr.mismatch">>]
    ELSE [out |-> Returned(ValNone),
          log |-> <<"check_compatibility", "print.stdout.compatible">>]

\* check_version_command(args): sys.exit(1) raises SystemExit, which the
\* `except Exception` of main does not catch
check_version_command_outcome(server_version) ==
    IF check_compatibility(__version__, server_version).kind = "raised"
    THEN [out |-> Raised("SystemExit", <<"1">>),
          log |-> <<"check_compatibility", "print.stderr.mismatch">>]
    ELSE [out |-> Returned(ValNone),
          log |-> <<"check_compatibility", "print.stdout.compatible">>]

\* validate_command(args) on a file holding the JSON object `data`: the line
\* it prints and how it ends (sys.exit(1) raises SystemExit)
validate_command_outcome(data) ==
    LET missing == SelectSeq(BASE_FIELDS,
                       LAMBDA field : field \notin DOMAIN data \/ data[field] = None)
    IN  IF missing # <<>>
        THEN [out |-> Raised("SystemExit", <<"1">>),
              printed |-> <<"cyr:Missing required fields: ">>
                          \o join([i \in 1..Len(missing) |-> <<missing[i]>>], <<", ">>)]
        ELSE [out |-> Returned(ValNone),
              printed |-> <<"cyr:JSON has all required fields">>]

----
(* The calls *)

NoCall ==
    [op |-> "none", api_url |-> None, client_token |-> None,
     env_url |-> None, env_token |-> None, process_pdf_locally |-> FALSE,
     health |-> NoHealth,
     suffix |-> <<>>, doc |-> NoDoc, readable |-> FALSE, reply |-> NoReply,
     result |-> ValNone, client_version |-> <<>>, server_version |-> <<>>,
     args |-> <<>>]

\* a process that has imported the package and constructed nothing yet
Init ==
    /\ pc = "start"
    /\ self = NoSelf
    /\ call = NoCall
    /\ outcome = NoOutcome
    /\ log = <<>>

\* ReceiptRecognizerClient.__init__ up to the call of _check_connection; the
\* two environment variables are read here
__init__ ==
    /\ pc = "start"
    /\ \E api_url \in Urls \cup {None}, client_token \in Tokens \cup {None},
          process_pdf_locally \in BOOLEAN,
          env_url \in Urls \cup {None}, env_token \in Tokens \cup {None} :
          LET url == resolve_api_url(api_url, env_url)
              token == resolve_client_token(client_token, env_token)
          IN  /\ call' = [NoCall EXCEPT !.op = "__init__", !.api_url = api_url,
                             !.client_token = client_token, !.env_url = env_url,
                             !.env_token = env_token,
                             !.process_pdf_locally = process_pdf_locally]
              /\ self' = [api_url |-> url, client_token |-> token,
                          process_pdf_locally |-> process_pdf_locally,
                          local_mode |-> ~truthy(url)]
              /\ log' = <<>>
              /\ IF ~truthy(url)
                 THEN pc' = "idle" /\ outcome' = Returned(ValNone)
                 ELSE IF ~truthy(token)
                 THEN /\ pc' = "failed"
                      /\ outcome' = Raised("ValueError",
                                        <<"Client token is required when using API. ">>)
                 ELSE pc' = "connecting" /\ outcome' = NoOutcome

\* _check_connection(), the last statement of __init__
_check_connection ==
    /\ pc = "connecting"
    /\ \E health \in HealthReplies :
          LET r == check_connection_outcome(health)
          IN  /\ call' = [call EXCEPT !.health = health]
              /\ log' = log \o r.log
              /\ outcome' = r.out
              /\ pc' = IF r.out.kind = "raised" THEN "failed" ELSE "idle"
    /\ UNCHANGED self

\* recognize(file_path) up to the call of one of the two paths
recognize ==
    /\ pc = "idle"
    /\ \E suffix \in Suffixes :
          /\ call' = [NoCall EXCEPT !.op = "recognize", !.suffix = suffix]
          /\ pc' = IF use_local_path(self, suffix) THEN "local" ELSE "remote"
    /\ outcome' = NoOutcome
    /\ log' = <<>>
    /\ UNCHANGED self

\* return self._process_pdf_locally(file_path)
_process_pdf_locally ==
    /\ pc = "local"
    /\ \E doc \in Documents :
          LET r == process_pdf_locally_outcome(doc)
          IN  /\ call' = [call EXCEPT !.doc = doc]
              /\ outcome' = r.out
              /\ log' = log \o r.log
    /\ pc' = "idle"
    /\ UNCHANGED self

\* return self._send_to_api(file_path)
_send_to_api ==
    /\ pc = "remote"
    /\ \E readable \in BOOLEAN, reply \in Replies :
          LET r == send_to_api_outcome(self, readable, reply)
          IN  /\ call' = [call EXCEPT !.readable = readable, !.reply = reply]
              /\ outcome' = r.out
              /\ log' = log \o r.log
    /\ pc' = "idle"
    /\ UNCHANGED self

\* the command line `receipt-recognizer check-version <server_version>`
check_version_command ==
    /\ pc = "start"
    /\ \E server_version \in Versions :
          LET r == check_version_command_outcome(server_version)
          IN  /\ call' = [NoCall EXCEPT !.op = "check-version",
                             !.client_version = __version__,
                             !.server_version = server_version]
              /\ outcome' = r.out
              /\ log' = r.log
    /\ pc' = "exited"
    /\ UNCHANGED self

Next ==
    \/ __init__
    \/ _check_connection
    \/ recognize
    \/ _process_pdf_locally
    \/ _send_to_api
    \/ check_version_command

Spec == Init /\ [][Next]_vars

----
(* The pure functions, applied once to inputs drawn by the initial state *)

InitValidate ==
    /\ pc = "pure"
    /\ self = NoSelf
    /\ \E r \in {ValDict(x) : x \in ResultDicts} :
          call = [NoCall EXCEPT !.op = "_validate_result", !.result = r]
    /\ outcome = NoOutcome
    /\ log = <<>>

validate_call ==
    /\ call.op = "_validate_result"
    /\ outcome = NoOutcome
    /\ outcome' = _validate_result(call.result)
    /\ UNCHANGED <<pc, self, call, log>>

SpecValidate == InitValidate /\ [][validate_call]_vars

InitVersion ==
    /\ pc = "pure"
    /\ self = NoSelf
    /\ \E c \in Versions, s \in Versions :
          call = [NoCall EXCEPT !.op = "check_compatibility",
                     !.client_version = c, !.server_version = s]
    /\ outcome = NoOutcome
    /\ log = <<>>

check_compatibility_call ==
    /\ call.op = "check_compatibility"
    /\ outcome = NoOutcome
    /\ outcome' = check_compatibility(call.client_version, call.server_version)
    /\ UNCHANGED <<pc, self, call, log>>

SpecVersion == InitVersion /\ [][check_compatibility_call]_vars

\* the strings and None passed as date_str and time_str
StrChars == {"1", ":"}
OptStrs == {None} \cup SeqsUpTo(StrChars, MaxStrLen)

InitCombine ==
    /\ pc = "pure"
    /\ self = NoSelf
    /\ \E d \in OptStrs, t \in OptStrs :
          call = [NoCall EXCEPT !.op = "_combine_date_time",
                     !.args = [date_str |-> d, time_str |-> t]]
    /\ outcome = NoOutcome
    /\ log = <<>>

combine_date_time_call ==
    /\ call.op = "_combine_date_time"
    /\ outcome.kind = "none"
    /\ outcome' = Returned(_combine_date_time(call.args.date_str, call.args.time_str))
    /\ UNCHANGED <<pc, self, call, log>>

SpecCombine == InitCombine /\ [][combine_date_time_call]_vars

\* the pattern dicts passed by the caller: up to two fields, in either order
PatternFields == {"amount", "date"}
PatternItem == [field : PatternFields, pattern : Patterns]
PatternItems ==
    {<<>>}
    \cup {<<x>> : x \in PatternItem}
    \cup {xy \in PatternItem \X PatternItem : xy[1].field # xy[2].field}

InitPatterns ==
    /\ pc = "pure"
    /\ self = NoSelf
    /\ \E text \in Texts, items \in PatternItems :
          call = [NoCall EXCEPT !.op = "find_text_by_patterns",
                     !.args = [text |-> text, items |-> items]]
    /\ outcome = NoOutcome
    /\ log = <<>>

find_text_by_patterns_call ==
    /\ call.op = "find_text_by_patterns"
    /\ outcome.kind = "none"
    /\ outcome' = find_text_by_patterns_in(call.args.text, call.args.items)
    /\ UNCHANGED <<pc, self, call, log>>

SpecPatterns == InitPatterns /\ [][find_text_by_patterns_call]_vars

InitPositions ==
    /\ pc = "pure"
    /\ self = NoSelf
    /\ \E a \in 0..MaxWords :
          \E b \in (-1)..(MaxWords - a) :
              \E p \in [1..a -> Words], q \in [1..b -> Words] :
                  call = [NoCall EXCEPT !.op = "extract_text_with_positions",
                             !.args = [pages |-> PagesOf(b, p, q)]]
    /\ outcome = NoOutcome
    /\ log = <<>>

extract_text_with_positions_call ==
    /\ call.op = "extract_text_with_positions"
    /\ outcome.kind = "none"
    /\ outcome' = extract_text_with_positions_of(call.args.pages)
    /\ UNCHANGED <<pc, self, call, log>>

SpecPositions == InitPositions /\ [][extract_text_with_positions_call]_vars

InitExtract ==
    /\ pc = "pure"
    /\ self = NoSelf
    /\ \E data \in RawResults, possible_keys \in SeqsUpTo(CandidateKeys, MaxKeys) :
          call = [NoCall EXCEPT !.op = "_extract_field",
                     !.args = [data |-> data, possible_keys |-> possible_keys]]
    /\ outcome = NoOutcome
    /\ log = <<>>

extract_field_call ==
    /\ call.op = "_extract_field"
    /\ outcome.kind = "none"
    /\ outcome' = Returned(_extract_field(call.args.data, call.args.possible_keys))
    /\ UNCHANGED <<pc, self, call, log>>

SpecExtract == InitExtract /\ [][extract_field_call]_vars

\* The three validators, each applied once to the same mapping; `outcome` holds
\* one outcome per validator and `log` the lines printed by the command
NoOutcomes == [core |-> NoOutcome, client |-> NoOutcome, cli |-> NoOutcome]

InitValidators ==
    /\ pc = "pure"
    /\ self = NoSelf
    /\ \E r \in {ValDict(x) : x \in ResultDicts} :
          call = [NoCall EXCEPT !.op = "validators", !.result = r]
    /\ outcome = NoOutcomes
    /\ log = <<>>

validate_fields_call ==
    /\ call.op = "validators"
    /\ outcome.core.kind = "none"
    /\ outcome' = [outcome EXCEPT !.core = Returned(validate_fields(call.result.d))]
    /\ UNCHANGED <<pc, self, call, log>>

validate_result_call ==
    /\ call.op = "validators"
    /\ outcome.client.kind = "none"
    /\ outcome' = [outcome EXCEPT !.client = _validate_result(call.result)]
    /\ UNCHANGED <<pc, self, call, log>>

validate_command ==
    /\ call.op = "validators"
    /\ outcome.cli.kind = "none"
    /\ outcome' = [outcome EXCEPT !.cli = validate_command_outcome(call.result.d).out]
    /\ log' = Append(log, validate_command_outcome(call.result.d).printed)
    /\ UNCHANGED <<pc, self, call>>

NextValidators ==
    \/ validate_fields_call
    \/ validate_result_call
    \/ validate_command

SpecValidators == InitValidators /\ [][NextValidators]_vars

----
(* The import of the package: the top-level statements of each module that
   import something or bind a name another module imports *)

Package == "receipt_recognizer"
Submodules ==
    {"client", "constants", "exceptions", "version", "pdf_processor",
     "telegram_integration", "cli", "core"}
ThirdParty == {"requests", "fitz", "telegram"}

\* `from <from> import <names>` (guarded: inside try/except ImportError)
FromImport(module, names, guarded) ==
    [kind |-> "from", from |-> module, names |-> names, guarded |-> guarded]
\* `import <package>` of a third-party package
ImportExternal(package) ==
    [kind |-> "external", from |-> package, names |-> {package}, guarded |-> FALSE]
\* assignments, def and class statements binding names
Definition(names) ==
    [kind |-> "def", from |-> "", names |-> names, guarded |-> FALSE]

ExceptionNames ==
    {"ReceiptRecognizerError", "APIError", "ValidationError",
     "VersionMismatchError", "DeprecatedClientError"}
ConstantNames ==
    {"BASE_FIELDS", "SOURCE", "DESTINATION", "AMOUNT", "FEE", "DATE",
     "BASE_FIELDS_DESC"}

\* the statements of a module, in the order of the file
Program(module) ==
    CASE module = Package ->
            <<FromImport("client", {"ReceiptRecognizerClient"}, FALSE),
              FromImport("constants", ConstantNames, FALSE),
              FromImport("exceptions", ExceptionNames, FALSE),
              FromImport("version", {"__version__", "check_compatibility"}, FALSE),
              FromImport("telegram_integration",
                         {"TelegramReceiptBot", "create_telegram_client"}, TRUE),
              FromImport("cli", {"main"}, TRUE)>>
      [] module = "client" ->
            <<ImportExternal("requests"),
              FromImport("constants", {"BASE_FIELDS"}, FALSE),
              FromImport("exceptions",
                         {"APIError", "ValidationError", "VersionMismatchError"}, FALSE),
              FromImport("version",
                         {"__version__", "MIN_SERVER_VERSION", "check_compatibility"},
                         FALSE),
              FromImport("pdf_processor", {"PDFProcessor", "process_receipt_pdf"}, FALSE),
              Definition({"ReceiptRecognizerClient"})>>
      [] module = "constants" -> <<Definition(ConstantNames)>>
      [] module = "exceptions" -> <<Definition(ExceptionNames)>>
      [] module = "version" ->
            <<Definition({"__version__"}),
              FromImport(Package, {"VersionMismatchError"}, FALSE),
              Definition({"MIN_SERVER_VERSION", "API_VERSION", "check_compatibility"})>>
      [] module = "pdf_processor" ->
            <<ImportExternal("fitz"),
              Definition({"PDFProcessor", "RECEIPT_PATTERNS", "process_receipt_pdf"})>>
      [] module = "telegram_integration" ->
            <<ImportExternal("telegram"),
              FromImport("client", {"ReceiptRecognizerClient"}, FALSE),
              Definition({"format_receipt_for_telegram", "ForwardingReceiptBot",
                          "create_forwarding_bot", "main"})>>
      [] module = "cli" ->
            <<FromImport("client", {"ReceiptRecognizerClient"}, FALSE),
              FromImport("exceptions",
                         {"APIError", "ValidationError", "VersionMismatchError"}, FALSE),
              FromImport("version", {"__version__"}, FALSE),
              Definition({"main", "recognize_command", "check_version_command",
                          "validate_command"})>>
      [] module = "core" ->
            <<FromImport("constants", ConstantNames \ {"BASE_FIELDS_DESC"}, FALSE),
              FromImport(Package, {"ReceiptRecognizer"}, TRUE),
              Definition({"HAS_EXTERNAL_LIB", "ExternalRecognizer",
                          "ReceiptRecognizerClient"})>>

\* the interpreter before the import: sys.modules, the modules being executed
\* (innermost last, each with the statement it is at) and the names bound in
\* the namespace of each module
NoModules ==
    [sys_modules |-> {}, stack |-> <<>>,
     ns |-> [m \in {Package} \cup Submodules |-> {}]]

\* what the process imports, and the third-party packages that are installed
InitImport ==
    /\ pc = "start"
    /\ self = NoModules
    /\ \E target \in {Package, "client", "version", "cli", "core"},
          installed \in SUBSET ThirdParty :
          call = [NoCall EXCEPT !.op = "import",
                     !.args = [target |-> target, installed |-> installed]]
    /\ outcome = NoOutcome
    /\ log = <<>>

Frame == self.stack[Len(self.stack)]
Running == pc = "importing" /\ Frame.line <= Len(Program(Frame.module))
Statement == Program(Frame.module)[Frame.line]

\* the stack with the innermost module moved to its next statement
Advanced == [self.stack EXCEPT ![Len(self.stack)].line = Frame.line + 1]

\* the innermost module with `names` bound, at its next statement
Bound(names) ==
    [self EXCEPT !.stack = Advanced,
                 !.ns[Frame.module] = self.ns[Frame.module] \cup names]

\* `module` starts to execute: it enters sys.modules first
Entered(module) ==
    [self EXCEPT !.sys_modules = self.sys_modules \cup {module},
                 !.stack = Append(self.stack, [module |-> module, line |-> 1])]

\* import of the package or of one of its modules: the package comes first
import_begin ==
    /\ pc = "start"
    /\ call.op = "import"
    /\ self' = Entered(Package)
    /\ log' = <<Package>>
    /\ pc' = "importing"
    /\ UNCHANGED <<call, outcome>>

\* an assignment, def or class statement
run_definition ==
    /\ Running
    /\ Statement.kind = "def"
    /\ self' = Bound(Statement.names)
    /\ UNCHANGED <<pc, call, outcome, log>>

\* `import requests` and the like: ModuleNotFoundError when it is not installed
run_import_external ==
    /\ Running
    /\ Statement.kind = "external"
    /\ IF Statement.from \in call.args.installed
       THEN self' = Bound(Statement.names) /\ UNCHANGED <<pc, outcome>>
       ELSE /\ pc' = "raising"
            /\ outcome' = Raised("ModuleNotFoundError",
                              <<"No module named ", Statement.from>>)
            /\ UNCHANGED self
    /\ UNCHANGED <<call, log>>

\* `from <module> import <names>`: a module that is not in sys.modules is
\* executed first; then the names are read from its namespace as it is, and a
\* name that is not bound there is an ImportError (none of the names imported
\* here is a submodule, which would be imported instead)
run_from_import ==
    /\ Running
    /\ Statement.kind = "from"
    /\ IF Statement.from \notin self.sys_modules
       THEN /\ self' = Entered(Statement.from)
            /\ log' = Append(log, Statement.from)
            /\ UNCHANGED <<pc, outcome>>
       ELSE IF Statement.names \subseteq self.ns[Statement.from]
       THEN self' = Bound(Statement.names) /\ UNCHANGED <<pc, outcome, log>>
       ELSE /\ pc' = "raising"
            /\ outcome' = Raised("ImportError",
                              <<"cannot import name from partially initialized module ",
                                Statement.from>>)
            /\ UNCHANGED <<self, log>>
    /\ UNCHANGED call

\* a module has run to its end: a submodule becomes an attribute of the
\* package; after the package the module asked for is imported, if it is not yet
module_end ==
    /\ pc = "importing"
    /\ Frame.line > Len(Program(Frame.module))
    /\ LET popped == [self EXCEPT
                         !.stack = SubSeq(self.stack, 1, Len(self.stack) - 1),
                         !.ns[Package] =
                             self.ns[Package] \cup (({Frame.module}) \ {Package})]
       IN  IF Len(self.stack) > 1
           THEN self' = popped /\ UNCHANGED <<pc, outcome, log>>
           ELSE IF call.args.target \notin self.sys_modules
           THEN /\ self' = [popped EXCEPT
                               !.sys_modules = self.sys_modules \cup {call.args.target},
                               !.stack = <<[module |-> call.args.target, line |-> 1]>>]
                /\ log' = Append(log, call.args.target)
                /\ UNCHANGED <<pc, outcome>>
           ELSE /\ self' = popped
                /\ pc' = "imported"
                /\ outcome' = Returned(ValNone)
                /\ UNCHANGED log
    /\ UNCHANGED call

\* an exception on its way out: a try/except ImportError around the statement
\* of the innermost module stops it; else the module is given up and leaves
\* sys.modules, and the import fails when no module is left
unwind ==
    /\ pc = "raising"
    /\ IF Statement.guarded
       THEN /\ self' = [self EXCEPT !.stack = Advanced]
            /\ pc' = "importing"
            /\ outcome' = NoOutcome
       ELSE /\ self' = [self EXCEPT
                           !.stack = SubSeq(self.stack, 1, Len(self.stack) - 1),
                           !.sys_modules = self.sys_modules \ {Frame.module}]
            /\ pc' = IF Len(self.stack) = 1 THEN "failed" ELSE "raising"
            /\ UNCHANGED outcome
    /\ UNCHANGED <<call, log>>

NextImport ==
    \/ import_begin
    \/ run_definition
    \/ run_import_external
    \/ run_from_import
    \/ module_end
    \/ unwind

SpecImport == InitImport /\ [][NextImport]_vars

----
(* What the claims speak of *)

BaseFieldSet == {"source", "destination", "amount", "fee", "date"}

\* the place of a base field in BASE_FIELDS
FieldIndex(f) == CHOOSE k \in 1..Len(BASE_FIELDS) : BASE_FIELDS[k] = f

\* the base fields a dict lacks: absent or None
MissingIn(d) == {f \in BaseFieldSet : f \notin DOMAIN d \/ d[f] = None}

Events == {log[i] : i \in 1..Len(log)}

\* a recognize call has ended, on the local or on the remote path
RecognizeDone == call.op = "recognize" /\ pc = "idle"
LocalTaken == RecognizeDone /\ log # <<>> /\ log[1] = "_process_pdf_locally"
RemoteTaken == RecognizeDone /\ log # <<>> /\ log[1] = "_send_to_api"

\* the suffix is .pdf in any mix of cases
IsPdfSuffix(s) ==
    /\ Len(s) = 4
    /\ s[1] = "."
    /\ s[2] \in {"p", "P"}
    /\ s[3] \in {"d", "D"}
    /\ s[4] \in {"f", "F"}

\* a reply of the recognition endpoint has reached the client
Answered == RemoteTaken /\ "requests.post" \in Events /\ call.reply.net

\* the length of the text before the first dot of a version string
MajorLen(v) ==
    CHOOSE n \in 0..Len(v) :
        /\ n = Len(v) \/ v[n + 1] = "."
        /\ \A i \in 1..n : v[i] # "."

SameMajor(c, s) == SubSeq(c, 1, MajorLen(c)) = SubSeq(s, 1, MajorLen(s))

\* x is y without its trailing slashes
StripOf(x, y) ==
    \E n \in 0..Len(y) :
        /\ x = SubSeq(y, 1, n)
        /\ \A i \in (n + 1)..Len(y) : y[i] = "/"
        /\ n = 0 \/ y[n] # "/"

----
(* The claims *)

C2_CompatibleIffSameMajor ==
    (call.op = "check_compatibility" /\ outcome.kind # "none") =>
        /\ SameMajor(call.client_version, call.server_version)
            => outcome = Returned(ValBool(TRUE))
        /\ ~SameMajor(call.client_version, call.server_version) =>
            /\ outcome.kind = "raised"
            /\ outcome.exc = "VersionMismatchError"
            /\ outcome.attrs.client_version = call.client_version
            /\ outcome.attrs.server_version = call.server_version

\* versions 1.1 and 1.2 were found compatible
C2_Witness ==
    /\ call.op = "check_compatibility"
    /\ call.client_version = <<"1", ".", "1">>
    /\ call.server_version = <<"1", ".", "2">>
    /\ outcome.kind = "returned"

\* C3 as stated: the local path is taken iff the suffix is .pdf in any case and
\* (process_pdf_locally or no endpoint); in every other case the file is sent
\* to the remote endpoint and the validator is run on the returned payload.
C3_AsStated ==
    RecognizeDone =>
        /\ LocalTaken <=>
              (IsPdfSuffix(call.suffix)
               /\ (self.process_pdf_locally \/ ~truthy(self.api_url)))
        /\ ~LocalTaken =>
              "requests.post" \in Events /\ "_validate_result" \in Events

\* C3 as amended: the local path is taken iff the suffix is .pdf in any case and
\* (process_pdf_locally or no endpoint); in every other case _send_to_api is
\* called and the local path is not: the file is sent to the remote endpoint
\* iff an endpoint is configured and the file can be read, and the validator is
\* run on the payload iff a reply arrives with status 200 and a JSON object body.
C3_Routing ==
    RecognizeDone =>
        /\ LocalTaken <=>
              (IsPdfSuffix(call.suffix)
               /\ (self.process_pdf_locally \/ ~truthy(self.api_url)))
        /\ ~LocalTaken =>
              /\ RemoteTaken
              /\ "is_searchable_pdf" \notin Events
              /\ "requests.post" \in Events
                    <=> (truthy(self.api_url) /\ call.readable)
              /\ "_validate_result" \in Events
                    <=> (Answered /\ call.reply.status = 200
                         /\ call.reply.body = "object")

\* a .PDF file went the local path in a client without endpoint whose
\* process_pdf_locally is off
C3_Witness ==
    /\ LocalTaken
    /\ call.suffix = <<".", "P", "D", "F">>
    /\ ~self.process_pdf_locally
    /\ ~truthy(self.api_url)

\* C4: on the local path a PDF that is not searchable ends in a returned record
\* with success False, is_scanned True and the OCR message, and the call
\* invokes neither process_receipt_pdf nor any text or pattern extraction.
C4_ScannedShortCircuit ==
    (LocalTaken /\ ~call.doc.searchable) =>
        /\ outcome.kind = "returned"
        /\ outcome.value.t = "dict"
        /\ {"success", "is_scanned", "error"} \subseteq DOMAIN outcome.value.d
        /\ outcome.value.d["success"] = FALSE
        /\ outcome.value.d["is_scanned"] = TRUE
        /\ outcome.value.d["error"]
              = <<"cyr:PDF is a scanned image. OCR is required.">>
        /\ Events \cap {"process_receipt_pdf", "find_text_by_patterns",
                        "extract_text_from_pdf", "extract_text_with_positions"}
              = {}

\* a scanned PDF was recognized on the local path
C4_Witness ==
    /\ LocalTaken
    /\ ~call.doc.searchable
    /\ outcome.kind = "returned"

\* C5: on the local path no exception reaches the caller; a failure of the
\* searchability check, of the extractions or of the mapping ends in a
\* returned record with success False and an error string.
C5_LocalFailuresAreRecords ==
    LocalTaken =>
        /\ outcome.kind = "returned"
        /\ outcome.value.t = "dict"
        /\ (~call.doc.searchable \/ call.doc.fault # "none") =>
              /\ {"success", "error"} \subseteq DOMAIN outcome.value.d
              /\ outcome.value.d["success"] = FALSE
              /\ outcome.value.d["error"] # <<>>

\* an exception raised after process_receipt_pdf returned became a record
C5_Witness ==
    /\ LocalTaken
    /\ call.doc.fault = "mapping"
    /\ outcome.kind = "returned"
    /\ outcome.value.d["success"] = FALSE

\* C6: on the remote path every reply whose status is not 200 ends in an
\* APIError whose message holds the status code and the reply's error string.
C6_Non200IsAPIErrorWithStatus ==
    (Answered /\ call.reply.status # 200) =>
        /\ outcome.kind = "raised"
        /\ outcome.exc = "APIError"
        /\ Contains(outcome.msg, <<ToString(call.reply.status)>>)
        /\ call.reply.error # None => Contains(outcome.msg, call.reply.error)

\* C7: every failure of a recognize call on the remote path is raised as an
\* APIError or a ValidationError, and a failed call returns no value.
C7_RemoteFailuresAreTyped ==
    RemoteTaken =>
        /\ outcome.kind = "raised" => outcome.exc \in {"APIError", "ValidationError"}
        /\ (~truthy(self.api_url) \/ ~call.readable \/ ~call.reply.net
            \/ call.reply.status # 200 \/ call.reply.body # "object"
            \/ call.reply.data.t # "dict"
            \/ MissingIn(call.reply.data.d) # {})
              => outcome.kind = "raised"

C9_NoUrlIsFatal ==
    (call.op = "__init__" /\ pc # "start"
     /\ call.api_url = None /\ call.env_url = None)
        => (outcome.kind = "raised" /\ outcome.exc = "ValueError" /\ pc = "failed")

\* C10 as stated: api_url and client_token are the passed parameter whenever
\* one is passed, and the environment variable's value only when none is.
C10_AsStated ==
    (call.op = "__init__" /\ pc # "start") =>
        /\ call.api_url # None => self.api_url = call.api_url
        /\ call.client_token # None => self.client_token = call.client_token
        /\ (call.api_url = None /\ call.env_url # None)
              => self.api_url = call.env_url
        /\ (call.client_token = None /\ call.env_token # None)
              => self.client_token = call.env_token

\* C10 as amended: api_url is the passed parameter without its trailing slashes
\* when a non-empty one is passed, and otherwise (None or "") the environment
\* variable's value without its trailing slashes ("" when it is not set);
\* client_token is the passed parameter when it is non-empty, and otherwise the
\* environment variable's value (None when it is not set).
C10_ParameterBeforeEnvironment ==
    (call.op = "__init__" /\ pc # "start") =>
        /\ truthy(call.api_url) => StripOf(self.api_url, call.api_url)
        /\ ~truthy(call.api_url) =>
              StripOf(self.api_url,
                      IF call.env_url = None THEN <<>> ELSE call.env_url)
        /\ truthy(call.client_token) => self.client_token = call.client_token
        /\ ~truthy(call.client_token) => self.client_token = call.env_token

\* a parameter with a trailing slash won over a different environment value
C10_Witness ==
    /\ call.op = "__init__"
    /\ pc # "start"
    /\ call.api_url = <<"h", "/">>
    /\ call.env_url = <<"/", "h">>
    /\ self.api_url = <<"h">>
    /\ call.client_token = <<"t">>
    /\ call.env_token = <<>>

\* C11: a server version whose major component differs from the client's never
\* aborts the construction of the client (a warning is issued and the client is
\* constructed), while the same mismatch in the check-version command ends in
\* exit status 1 without the message that the versions are compatible.
C11_MismatchWarnsClientFailsCli ==
    /\ (call.op = "__init__" /\ call.health.kind = "version"
         /\ ~SameMajor(__version__, call.health.version))
            => /\ pc = "idle"
               /\ outcome.kind = "returned"
               /\ "warnings.warn" \in Events
    /\ (call.op = "check-version"
         /\ ~SameMajor(__version__, call.server_version))
            => /\ pc = "exited"
               /\ outcome.kind = "raised"
               /\ outcome.exc = "SystemExit"
               /\ outcome.msg = <<"1">>
               /\ "print.stdout.compatible" \notin Events

\* a client constructed against a server of major version 2
C11_Witness ==
    /\ call.op = "__init__"
    /\ call.health.kind = "version"
    /\ call.health.version = <<"2", ".", "1">>
    /\ pc = "idle"
    /\ "warnings.warn" \in Events

\* a date or a time is present: it is a string and it is not empty
Present(x) == x # None /\ x # <<>>

\* C12: _combine_date_time returns the date, a "T" and the time when both are
\* present, the date as it is when only the date is present, and None whenever
\* the date is absent, whatever the time.
C12_CombineDateTime ==
    (call.op = "_combine_date_time" /\ outcome.kind # "none") =>
        LET d == call.args.date_str
            t == call.args.time_str
            r == outcome.value
        IN  /\ outcome.kind = "returned"
            /\ (Present(d) /\ Present(t)) =>
                  /\ Len(r) = Len(d) + 1 + Len(t)
                  /\ SubSeq(r, 1, Len(d)) = d
                  /\ r[Len(d) + 1] = "T"
                  /\ SubSeq(r, Len(d) + 2, Len(r)) = t
            /\ (Present(d) /\ ~Present(t)) => r = d
            /\ ~Present(d) => r = None

\* a date and a time were combined
C12_Witness ==
    /\ call.op = "_combine_date_time"
    /\ call.args.date_str = <<"1", "1">>
    /\ call.args.time_str = <<"1", ":">>
    /\ outcome.kind = "returned"
    /\ outcome.value = <<"1", "1", "T", "1", ":">>

\* the positions of a text where a pattern matches, letter case ignored
MatchStarts(p, text) ==
    {i \in 1..(Len(text) - Len(p.lit) + 1) :
        \A k \in 1..Len(p.lit) : lower_char(text[i + k - 1]) = lower_char(p.lit[k])}

\* None without a match; else the group of the leftmost match, or all of it
\* when the pattern has no group
FieldValue(p, text) ==
    IF MatchStarts(p, text) = {} THEN None
    ELSE LET i == CHOOSE m \in MatchStarts(p, text) :
                      \A o \in MatchStarts(p, text) : m <= o
             whole == SubSeq(text, i, i + Len(p.lit) - 1)
         IN  IF p.g = 0 THEN whole
             ELSE SubSeq(whole, Len(whole) - p.g + 1, Len(whole))

\* C13: find_text_by_patterns returns a dict whose keys are the keys of the
\* patterns; a field whose pattern has no match is None and nothing is raised;
\* otherwise it is the first group of the first match, or the whole match when
\* the pattern has no group; a field's value depends on its own pattern only.
C13_FieldsSearchedIndependently ==
    (call.op = "find_text_by_patterns" /\ outcome.kind # "none") =>
        LET items == call.args.items
            text == call.args.text
        IN  /\ outcome.kind = "returned"
            /\ outcome.value.t = "dict"
            /\ DOMAIN outcome.value.d = {items[i].field : i \in 1..Len(items)}
            /\ \A i \in 1..Len(items) :
                  outcome.value.d[items[i].field] = FieldValue(items[i].pattern, text)

\* the first pattern has no match, the second matches twice and has a group
C13_Witness ==
    /\ call.op = "find_text_by_patterns"
    /\ call.args.text = <<"P", "p">>
    /\ call.args.items = <<[field |-> "date", pattern |-> [lit |-> <<"d">>, g |-> 0]],
                           [field |-> "amount", pattern |-> [lit |-> <<"p">>, g |-> 1]]>>
    /\ outcome.kind = "returned"
    /\ outcome.value.d["date"] = None
    /\ outcome.value.d["amount"] = <<"P">>

\* the banks in the order of the claim, and the bank a marker stands for
BankOrder == <<<<"cyr:Sberbank">>, <<"cyr:Tinkoff">>, <<"cyr:Alfa-bank">>, <<"cyr:VTB">>>>
BankRank(marker) ==
    CASE marker \in {"cyr:sber", "sber"} -> 1
      [] marker \in {"cyr:tinkoff", "tinkoff"} -> 2
      [] marker \in {"cyr:alfa", "alfa"} -> 3
      [] marker \in {"cyr:vtb", "vtb"} -> 4

\* the substrings the chain tests for
TestedMarkers == BankMarkers \ {"vtb"}

\* the local path has returned the dict of a pattern extraction
Extracted ==
    /\ LocalTaken
    /\ call.doc.searchable
    /\ call.doc.fault = "none"
    /\ outcome.kind = "returned"

C15_RecordsHaveBaseFields ==
    (RecognizeDone /\ outcome.kind = "returned") =>
        /\ outcome.value.t = "dict"
        /\ BaseFieldSet \subseteq DOMAIN outcome.value.d

\* C16: the record recognize returns tells the path that produced it: `source`
\* is "pdf" on a record of the local path and never on one of the remote path.
C16_RecordTellsItsPath ==
    (RecognizeDone /\ outcome.kind = "returned" /\ outcome.value.t = "dict") =>
        /\ "source" \in DOMAIN outcome.value.d
        /\ LocalTaken => outcome.value.d["source"] = <<"pdf">>
        /\ RemoteTaken => outcome.value.d["source"] # <<"pdf">>

\* float(s): the number a numeric text denotes, which is not the text
Numeric(s) == <<"float">> \o s

\* C17: after a successful local extraction the normalized record has the
\* extracted amount as a number, the extracted commission as its fee, no source
\* and no destination, and is_scanned is false.
C17_LocalRecordIsNormalized ==
    (Extracted /\ "mapped" \in DOMAIN outcome.value.d) =>
        LET d == outcome.value.d
            extracted == d["extracted"]
        IN  /\ extracted["amount"] # None =>
                  d["mapped"].amount = Numeric(extracted["amount"])
            /\ d["mapped"].fee = extracted["commission"]
            /\ d["mapped"].source = None
            /\ d["mapped"].destination = None
            /\ d["is_scanned"] = FALSE

\* the requests sent to the recognition endpoint during the call
Posts == Cardinality({i \in 1..Len(log) : log[i] = "requests.post"})

\* C18 as stated: a recognize call sends exactly one request when the remote
\* path is taken with an endpoint configured, none on the local path, and never
\* more than one.
C18_AsStated ==
    RecognizeDone =>
        /\ Posts <= 1
        /\ (RemoteTaken /\ ~self.local_mode) => Posts = 1
        /\ LocalTaken => Posts = 0

\* C18 as amended: a recognize call sends exactly one request when the remote
\* path is taken with an endpoint configured and the file can be opened, and
\* none otherwise; a request that failed is not sent again.
C18_OneRequestPerCall ==
    RecognizeDone =>
        Posts = IF RemoteTaken /\ ~self.local_mode /\ call.readable THEN 1 ELSE 0

\* the one request of a call failed and the call ended in an APIError
C18_Witness ==
    /\ RemoteTaken
    /\ ~self.local_mode
    /\ call.readable
    /\ ~call.reply.net
    /\ outcome.kind = "raised"
    /\ outcome.exc = "APIError"
    /\ Posts = 1

\* the tenth of a point nearest to a position given in hundredths
NearestTenth(y) == CHOOSE t \in 0..y : 10 * t - 5 < y /\ y < 10 * t + 5

\* C19: in the output of extract_text_with_positions the lines of a page are in
\* strictly ascending order of their rounded vertical position; two words of
\* a page are in the same line iff their rounded vertical positions are equal;
\* the words of a line are in ascending horizontal position; the text of a
\* line is its words joined by single blanks; no line is all whitespace.
C19_LinesAndWordsAreOrdered ==
    (call.op = "extract_text_with_positions" /\ outcome.kind # "none") =>
        LET out == outcome.value
            L == 1..Len(out)
        IN  /\ outcome.kind = "returned"
            /\ \A i \in L, j \in L :
                  (i < j /\ out[i].page = out[j].page)
                      => out[i].y_position < out[j].y_position
            /\ \A i \in L, j \in L :
                  \A k \in 1..Len(out[i].words), l \in 1..Len(out[j].words) :
                      out[i].page = out[j].page =>
                          (i = j <=> NearestTenth(out[i].words[k].y)
                                       = NearestTenth(out[j].words[l].y))
            /\ \A i \in L :
                  \A k \in 1..Len(out[i].words), l \in 1..Len(out[i].words) :
                      k < l => out[i].words[k].x <= out[i].words[l].x
            /\ \A i \in L :
                  out[i].text
                      = join([k \in 1..Len(out[i].words) |-> out[i].words[k].text],
                             <<" ">>)
            /\ \A i \in L :
                  \E c \in 1..Len(out[i].text) : out[i].text[c] \notin {" ", "nbsp"}

\* a page read bottom line first, its upper line right word first
C19_Witness ==
    /\ call.op = "extract_text_with_positions"
    /\ call.args.pages = <<<<[x |-> 2, y |-> 16, text |-> <<"a">>],
                             [x |-> 2, y |-> 11, text |-> <<"a">>],
                             [x |-> 1, y |-> 14, text |-> <<"nbsp">>]>>>>
    /\ outcome.kind = "returned"
    /\ Len(outcome.value) = 2
    /\ outcome.value[1].y_position = 1
    /\ outcome.value[1].text = <<"nbsp", " ", "a">>
    /\ outcome.value[2].y_position = 2

\* C20: _extract_field returns the value stored under the first candidate key,
\* in the order of the list, that is a key of the record, and None when no
\* candidate is; a later candidate is not used when an earlier one is present.
C20_FirstPresentKeyWins ==
    (call.op = "_extract_field" /\ outcome.kind # "none") =>
        LET data == call.args.data
            keys == call.args.possible_keys
            present == {i \in 1..Len(keys) : keys[i] \in DOMAIN data}
        IN  /\ outcome.kind = "returned"
            /\ present = {} => outcome.value = None
            /\ \A i \in present :
                  (\A j \in present : i <= j) => outcome.value = data[keys[i]]

\* the first candidate is missing and the two others hold different values
C20_Witness ==
    /\ call.op = "_extract_field"
    /\ call.args.possible_keys = <<"sender", "sender_card", "source">>
    /\ DOMAIN call.args.data = {"sender_card", "source"}
    /\ call.args.data["sender_card"] = <<"a">>
    /\ call.args.data["source"] = <<"b">>
    /\ outcome.kind = "returned"
    /\ outcome.value = <<"a">>

\* C21: a text whose only bank marker is one spelling of a bank, Cyrillic or
\* Latin, gets the `bank` value of that bank.
C21_EitherSpellingNamesTheBank ==
    (Extracted /\ Cardinality(call.doc.markers) = 1) =>
        \A m \in call.doc.markers :
            /\ "bank" \in DOMAIN outcome.value.d
            /\ outcome.value.d["bank"] = BankOrder[BankRank(m)]

\* the three validators have been applied
AllValidated ==
    /\ call.op = "validators"
    /\ outcome.core.kind # "none"
    /\ outcome.client.kind # "none"
    /\ outcome.cli.kind # "none"

\* C22: on every mapping validate_fields returns True iff _validate_result does
\* not raise iff the validate command reports success, and the fields the
\* command lists as missing are those of the ValidationError message.
C22_ValidatorsAgree ==
    AllValidated =>
        LET core_ok == outcome.core.kind = "returned"
                       /\ outcome.core.value = ValBool(TRUE)
            client_ok == outcome.client.kind = "returned"
            cli_ok == outcome.cli.kind = "returned"
        IN  /\ core_ok <=> client_ok
            /\ client_ok <=> cli_ok
            /\ outcome.core.kind = "returned"
            /\ ~client_ok => outcome.client.exc = "ValidationError"
            /\ ~cli_ok =>
                  /\ outcome.cli.exc = "SystemExit"
                  /\ Tail(log[1]) = Tail(outcome.client.msg)
                  /\ Len(log[1]) > 1

\* a mapping with a null amount and no fee was refused by all three
C22_Witness ==
    /\ AllValidated
    /\ DOMAIN call.result.d = BaseFieldSet \ {"fee"}
    /\ call.result.d["amount"] = None
    /\ call.result.d["source"] = <<"v">>
    /\ call.result.d["destination"] = <<"v">>
    /\ call.result.d["date"] = <<"v">>
    /\ outcome.core.value = ValBool(FALSE)
    /\ outcome.client.exc = "ValidationError"
    /\ outcome.cli.exc = "SystemExit"
    /\ Tail(log[1]) = <<"amount", ", ", "fee">>

\* C23: in every record the local path returns, success is false iff the
\* record has an `error` key, `source` is "pdf", a `mapped` sub-record is
\* present iff an `extracted` key is, and success = true comes with
\* is_scanned = false.
C23_LocalRecordIsConsistent ==
    (LocalTaken /\ outcome.kind = "returned") =>
        LET d == outcome.value.d
        IN  /\ outcome.value.t = "dict"
            /\ {"success", "source"} \subseteq DOMAIN d
            /\ d["success"] = FALSE <=> "error" \in DOMAIN d
            /\ d["source"] = <<"pdf">>
            /\ "mapped" \in DOMAIN d <=> "extracted" \in DOMAIN d
            /\ d["success"] = TRUE =>
                  ("is_scanned" \in DOMAIN d /\ d["is_scanned"] = FALSE)

\* the text of a searchable file could not be extracted: an error record
\* without `extracted` and without `mapped`
C23_Witness ==
    /\ LocalTaken
    /\ outcome.kind = "returned"
    /\ call.doc.fault = "extract_text"
    /\ "error" \in DOMAIN outcome.value.d
    /\ outcome.value.d["success"] = FALSE
    /\ outcome.value.d["source"] = <<"pdf">>
    /\ "mapped" \notin DOMAIN outcome.value.d

\* a complete extraction: success, `extracted` and `mapped`, not scanned
C23_WitnessSuccess ==
    /\ Extracted
    /\ outcome.value.d["success"] = TRUE
    /\ "mapped" \in DOMAIN outcome.value.d
    /\ outcome.value.d["is_scanned"] = FALSE

\* the health requests sent during the construction
HealthRequests == Cardinality({i \in 1..Len(log) : log[i] = "requests.get"})

\* C24: with an endpoint URL and a token configured, the construction ends with
\* a client in remote mode after exactly one health request, whatever the
\* health endpoint does; with the URL configured and the token missing it
\* raises before any health request.
C24_HealthCheckNeverAborts ==
    (call.op = "__init__" /\ pc \notin {"start", "connecting"}) =>
        /\ (truthy(self.api_url) /\ truthy(self.client_token)) =>
              /\ pc = "idle"
              /\ outcome.kind = "returned"
              /\ ~self.local_mode
              /\ HealthRequests = 1
        /\ (truthy(self.api_url) /\ ~truthy(self.client_token)) =>
              /\ pc = "failed"
              /\ outcome.kind = "raised"
              /\ outcome.exc = "ValueError"
              /\ HealthRequests = 0

\* C25: while the package is imported, every name a module imports from the
\* namespace of the package is bound there when the import statement executes,
\* and the import does not fail with the third-party packages installed.
C25_PackageImportCompletes ==
    call.op = "import" =>
        /\ (Running /\ Statement.kind = "from" /\ Statement.from = Package
            /\ ~Statement.guarded)
              => Statement.names \subseteq self.ns[Package]
        /\ pc = "failed" =>
              /\ outcome.exc = "ModuleNotFoundError"
              /\ ~(ThirdParty \subseteq call.args.installed)

====
